---- MODULE Spec2Model ----
(***************************************************************************)
(* Model of server.js: an express router over one SQLite table `plans`.    *)
(* Each handler issues one SQL statement and answers from its callback;    *)
(* the statement and its callback form one atomic step.  The toggle        *)
(* handler issues two statements (SELECT, then UPDATE from the SELECT's    *)
(* callback), so it is two steps and statements of other requests may run  *)
(* between them.                                                           *)
(***************************************************************************)
EXTENDS Integers, Sequences, FiniteSets, TLC

\* ---------------------------------------------------------------- bounds
MaxId == 2          \* at most this many successful INSERTs
MaxTick == 1        \* CURRENT_TIMESTAMP takes the values 0..MaxTick
NumClients == 2     \* toggle requests that can be in flight together

Clients == 1..NumClients
ReqIds == 1..MaxId    \* identifiers carried by requests (:id)

\* ---------------------------------------------------------------- values
Undefined == "<undefined>"  \* a field absent from req.body
Null == "<NULL>"            \* SQL NULL
JNull == <<>>               \* JSON null in a response
JNum(n) == <<n>>            \* JSON number in a response

Priorities == {"low", "medium", "high"}

BaseBody == [title |-> "Ship release", description |-> Undefined,
             priority |-> Undefined, deadline |-> "2024-06-01",
             author |-> "alice", completed |-> FALSE]

\* request bodies: the base body, a required field absent or empty, a body
\* with every optional field given, a priority outside the set
Bodies ==
    {BaseBody,
     [BaseBody EXCEPT !.title = Undefined],
     [BaseBody EXCEPT !.title = ""],
     [BaseBody EXCEPT !.deadline = ""],
     [BaseBody EXCEPT !.author = Undefined],
     [BaseBody EXCEPT !.description = "notes", !.priority = "high",
                      !.completed = TRUE],
     [BaseBody EXCEPT !.priority = "urgent"]}

NoBody == [title |-> Undefined, description |-> Undefined,
           priority |-> Undefined, deadline |-> Undefined,
           author |-> Undefined, completed |-> FALSE]

\* ---------------------------------------------------------------- state
VARIABLES
    plans,              \* the rows of table plans
    sqlite_sequence,    \* AUTOINCREMENT: largest rowid ever assigned
    now,                \* CURRENT_TIMESTAMP of the store
    pc,                 \* per toggle request: "idle" | "write"
    tid,                \* per toggle request: req.params.id
    trow,               \* per toggle request: row.completed read by the SELECT
    last,               \* the most recent response sent
    created,            \* history: id and created_at of each successful create, in order
    mon                 \* history: toggle statements run back to back

vars == <<plans, sqlite_sequence, now, pc, tid, trow, last, created, mon>>

\* ---------------------------------------------------------------- JS helpers
\* JS truthiness of a body field (strings and undefined)
Truthy(v) == v \notin {Undefined, ""}

\* a || b
OrElse(v, d) == IF Truthy(v) THEN v ELSE d

\* node-sqlite3 leaves a parameter given as undefined unbound, i.e. NULL
Bind(v) == IF v = Undefined THEN Null ELSE v

\* ---------------------------------------------------------------- schema
Ids(tbl) == {r.id : r \in tbl}

SetMax(S) == IF S = {} THEN 0 ELSE CHOOSE m \in S : \A x \in S : x <= m

NotNull(v) == v # Null

\* the schema without its CHECK constraint
NoCheckPriority(p) == TRUE

\* CHECK(priority IN ('low','medium','high')); a CHECK passes on NULL
CheckPriority(p) == p = Null \/ p \in Priorities

\* the row constraints of the table
RowOK(r) ==
    /\ NotNull(r.title)
    /\ NotNull(r.deadline)
    /\ NotNull(r.author)
    /\ CheckPriority(r.priority)

\* INTEGER PRIMARY KEY without AUTOINCREMENT: one more than the largest rowid stored
ReuseRowid(tbl, seq) == SetMax(Ids(tbl)) + 1

\* INTEGER PRIMARY KEY AUTOINCREMENT: one more than the largest rowid ever used
NextRowid(tbl, seq) == SetMax(Ids(tbl) \cup {seq}) + 1

\* ---------------------------------------------------------------- statements
\* INSERT INTO plans (title, description, priority, deadline, author)
\* VALUES (?, ?, ?, ?, ?); completed and created_at take their defaults.
\* A constraint failure aborts the statement and rolls back its changes.
SqlInsert(tbl, seq, ts, p) ==
    LET rowid == NextRowid(tbl, seq)
        row == [id |-> rowid, title |-> p.title, description |-> p.description,
                priority |-> p.priority, deadline |-> p.deadline,
                author |-> p.author, completed |-> 0, created_at |-> ts]
    IN  IF RowOK(row)
        THEN [err |-> FALSE, tbl |-> tbl \cup {row}, seq |-> rowid,
              lastID |-> rowid, changes |-> 1]
        ELSE [err |-> TRUE, tbl |-> tbl, seq |-> seq, lastID |-> 0, changes |-> 0]

SetFields(r, p) ==
    [r EXCEPT !.title = p.title, !.description = p.description,
              !.priority = p.priority, !.deadline = p.deadline,
              !.author = p.author, !.completed = p.completed]

\* an UPDATE that checked the constraints on its parameters before selecting rows
EagerSqlUpdate(tbl, id, p) ==
    LET hit == {r \in tbl : r.id = id}
    IN  IF ~RowOK(p)
        THEN [err |-> TRUE, tbl |-> tbl, changes |-> 0]
        ELSE [err |-> FALSE,
              tbl |-> (tbl \ hit) \cup {SetFields(r, p) : r \in hit},
              changes |-> Cardinality(hit)]

\* UPDATE plans SET title = ?, description = ?, priority = ?, deadline = ?,
\* author = ?, completed = ? WHERE id = ?; constraints are checked on each
\* row the WHERE clause selects, so a statement that selects none cannot fail.
SqlUpdate(tbl, id, p) ==
    LET hit == {r \in tbl : r.id = id}
    IN  IF \E r \in hit : ~RowOK(SetFields(r, p))
        THEN [err |-> TRUE, tbl |-> tbl, changes |-> 0]
        ELSE [err |-> FALSE,
              tbl |-> (tbl \ hit) \cup {SetFields(r, p) : r \in hit},
              changes |-> Cardinality(hit)]

\* DELETE FROM plans WHERE id = ?
SqlDelete(tbl, id) ==
    LET hit == {r \in tbl : r.id = id}
    IN  [err |-> FALSE, tbl |-> tbl \ hit, changes |-> Cardinality(hit)]

\* SELECT * FROM plans WHERE id = ? (db.get: the first row, or none)
SqlSelectById(tbl, id) == {r \in tbl : r.id = id}

\* UPDATE plans SET completed = NOT completed WHERE id = ? (one atomic statement)
SqlNegateCompleted(tbl, id, v) ==
    LET hit == {r \in tbl : r.id = id}
    IN  [err |-> FALSE,
         tbl |-> (tbl \ hit) \cup {[r EXCEPT !.completed = 1 - r.completed] : r \in hit},
         changes |-> Cardinality(hit)]

\* UPDATE plans SET completed = ? WHERE id = ?
SqlUpdateCompleted(tbl, id, v) ==
    LET hit == {r \in tbl : r.id = id}
    IN  [err |-> FALSE,
         tbl |-> (tbl \ hit) \cup {[r EXCEPT !.completed = v] : r \in hit},
         changes |-> Cardinality(hit)]

\* SELECT * FROM plans ORDER BY created_at DESC: every order of the rows that
\* is descending in created_at; rows with equal created_at come in any order.
SqlSelectAllOrdered(tbl) ==
    LET n == Cardinality(tbl)
    IN  {s \in [1..n -> tbl] :
            /\ \A i, j \in 1..n : i # j => s[i] # s[j]
            /\ \A i, j \in 1..n : i < j => s[i].created_at >= s[j].created_at}

\* SUM(CASE WHEN cond THEN 1 ELSE 0 END): NULL over no rows
SqlSumCase(tbl, matching) ==
    IF tbl = {} THEN JNull ELSE JNum(Cardinality(matching))

\* SELECT COUNT(*) as total, SUM(CASE WHEN completed = 1 ...) as completed,
\*        SUM(CASE WHEN priority = 'high' ...) as high_priority FROM plans
SqlStats(tbl) ==
    [total |-> JNum(Cardinality(tbl)),
     completed |-> SqlSumCase(tbl, {r \in tbl : r.completed = 1}),
     high_priority |-> SqlSumCase(tbl, {r \in tbl : r.priority = "high"})]

\* ---------------------------------------------------------------- handlers' pure parts
\* a validation that tested for undefined only
OnlyAbsentRejected(b) ==
    b.title = Undefined \/ b.deadline = Undefined \/ b.author = Undefined

\* if (!title || !deadline || !author)
MissingRequired(b) == ~Truthy(b.title) \/ ~Truthy(b.deadline) \/ ~Truthy(b.author)

\* [title, description || '', priority || 'medium', deadline, author]
InsertParams(b) ==
    [title |-> Bind(b.title), description |-> Bind(OrElse(b.description, "")),
     priority |-> Bind(OrElse(b.priority, "medium")),
     deadline |-> Bind(b.deadline), author |-> Bind(b.author)]

\* [title, description || '', priority || 'medium', deadline, author, completed ? 1 : 0]
UpdateParams(b) ==
    [title |-> Bind(b.title), description |-> Bind(OrElse(b.description, "")),
     priority |-> Bind(OrElse(b.priority, "medium")),
     deadline |-> Bind(b.deadline), author |-> Bind(b.author),
     completed |-> IF b.completed THEN 1 ELSE 0]

\* newStatus = !!row.completed, the negation left out
KeepStatus(completed) == completed # 0

\* const newStatus = !row.completed
NewStatus(completed) == completed = 0

\* newStatus ? 1 : 0
StatusParam(newStatus) == IF newStatus THEN 1 ELSE 0

\* a response (status, out) with the request it answers (op, id, req) and two
\* history fields: hit, whether the handler's first statement matched a row,
\* and changed, whether the request changed the table or its id sequence
Response(op, id, req, status, out, hit, changed) ==
    [op |-> op, id |-> id, req |-> req, status |-> status, out |-> out,
     hit |-> hit, changed |-> changed]

ErrorOut == [error |-> TRUE]

\* ---------------------------------------------------------------- history
MonEmpty == [log |-> <<>>, orig |-> {}]

Event(k, c, id, row, ns, st, ch) ==
    [k |-> k, c |-> c, id |-> id, row |-> row, ns |-> ns, st |-> st, ch |-> ch]

\* the toggle statements that ran back to back on one id, at most four, since
\* a state with no toggle in flight, and the table in that state
MonToggle(e, before) ==
    IF mon.log # <<>> /\ Len(mon.log) < 4 /\ mon.log[1].id = e.id
    THEN [log |-> Append(mon.log, e), orig |-> mon.orig]
    ELSE IF e.k = "r" /\ \A c \in Clients : pc[c] = "idle"
         THEN [log |-> <<e>>, orig |-> before]
         ELSE MonEmpty

\* ---------------------------------------------------------------- initial state
Init ==
    /\ plans = {}
    /\ sqlite_sequence = 0
    /\ now = 0
    /\ pc = [c \in Clients |-> "idle"]
    /\ tid = [c \in Clients |-> 0]
    /\ trow = [c \in Clients |-> 0]
    /\ last = Response("none", 0, NoBody, 0, ErrorOut, FALSE, FALSE)
    /\ created = <<>>
    /\ mon = MonEmpty

\* ---------------------------------------------------------------- actions
\* the store's clock advances
Tick ==
    /\ now < MaxTick
    /\ now' = now + 1
    /\ mon' = MonEmpty
    /\ UNCHANGED <<plans, sqlite_sequence, pc, tid, trow, last, created>>

\* GET /api/plans
List ==
    /\ \E rows \in SqlSelectAllOrdered(plans) :
          last' = Response("list", 0, NoBody, 200, rows, plans # {}, FALSE)
    /\ mon' = MonEmpty
    /\ UNCHANGED <<plans, sqlite_sequence, now, pc, tid, trow, created>>

\* GET /api/plans/:id
Get(id) ==
    /\ LET rows == SqlSelectById(plans, id)
       IN  last' = IF rows = {}
                   THEN Response("get", id, NoBody, 404, ErrorOut, FALSE, FALSE)
                   ELSE Response("get", id, NoBody, 200, CHOOSE r \in rows : TRUE,
                                 TRUE, FALSE)
    /\ mon' = MonEmpty
    /\ UNCHANGED <<plans, sqlite_sequence, now, pc, tid, trow, created>>

\* POST /api/plans
Create(b) ==
    /\ mon' = MonEmpty
    /\ UNCHANGED <<now, pc, tid, trow>>
    /\ IF MissingRequired(b)
       THEN /\ last' = Response("create", 0, b, 400, ErrorOut, FALSE, FALSE)
            /\ UNCHANGED <<plans, sqlite_sequence, created>>
       ELSE LET p == InsertParams(b)
                res == SqlInsert(plans, sqlite_sequence, now, p)
                changed == res.tbl # plans \/ res.seq # sqlite_sequence
            IN  /\ res.seq <= MaxId
                /\ plans' = res.tbl
                /\ sqlite_sequence' = res.seq
                /\ IF res.err
                   THEN /\ last' = Response("create", 0, b, 500, ErrorOut, FALSE, changed)
                        /\ UNCHANGED created
                   ELSE /\ last' = Response("create", res.lastID, b, 200,
                                       [id |-> res.lastID, title |-> b.title,
                                        description |-> OrElse(b.description, ""),
                                        priority |-> OrElse(b.priority, "medium"),
                                        deadline |-> b.deadline, author |-> b.author,
                                        completed |-> FALSE],
                                       FALSE, changed)
                        /\ created' = Append(created, [id |-> res.lastID, at |-> now])

\* PUT /api/plans/:id
Update(id, b) ==
    /\ LET res == SqlUpdate(plans, id, UpdateParams(b))
           hit == id \in Ids(plans)
           changed == res.tbl # plans
       IN  /\ plans' = res.tbl
           /\ last' = IF res.err
                      THEN Response("update", id, b, 500, ErrorOut, hit, changed)
                      ELSE IF res.changes = 0
                      THEN Response("update", id, b, 404, ErrorOut, hit, changed)
                      ELSE Response("update", id, b, 200, [changes |-> res.changes],
                                    hit, changed)
    /\ mon' = MonEmpty
    /\ UNCHANGED <<sqlite_sequence, now, pc, tid, trow, created>>

\* DELETE /api/plans/:id
Delete(id) ==
    /\ LET res == SqlDelete(plans, id)
           hit == id \in Ids(plans)
           changed == res.tbl # plans
       IN  /\ plans' = res.tbl
           /\ last' = IF res.changes = 0
                      THEN Response("delete", id, NoBody, 404, ErrorOut, hit, changed)
                      ELSE Response("delete", id, NoBody, 200, [changes |-> res.changes],
                                    hit, changed)
    /\ mon' = MonEmpty
    /\ UNCHANGED <<sqlite_sequence, now, pc, tid, trow, created>>

\* PATCH /api/plans/:id/toggle, first statement and its callback:
\* SELECT completed FROM plans WHERE id = ?, then 404 or issue the UPDATE
ToggleRead(c, id) ==
    /\ pc[c] = "idle"
    /\ LET rows == SqlSelectById(plans, id)
       IN  IF rows = {}
           THEN /\ last' = Response("toggle", id, NoBody, 404, ErrorOut, FALSE, FALSE)
                /\ mon' = MonEmpty
                /\ UNCHANGED <<pc, tid, trow>>
           ELSE LET row == CHOOSE r \in rows : TRUE
                IN  /\ pc' = [pc EXCEPT ![c] = "write"]
                    /\ tid' = [tid EXCEPT ![c] = id]
                    /\ trow' = [trow EXCEPT ![c] = row.completed]
                    /\ mon' = MonToggle(Event("r", c, id, row.completed, FALSE, 0, 0), plans)
                    /\ UNCHANGED last
    /\ UNCHANGED <<plans, sqlite_sequence, now, created>>

\* PATCH /api/plans/:id/toggle, second statement and its callback:
\* UPDATE plans SET completed = ? WHERE id = ?, then respond
ToggleWrite(c) ==
    /\ pc[c] = "write"
    /\ LET newStatus == NewStatus(trow[c])
           res == SqlUpdateCompleted(plans, tid[c], StatusParam(newStatus))
           out == [completed |-> newStatus, changes |-> res.changes]
       IN  /\ plans' = res.tbl
           /\ last' = Response("toggle", tid[c], NoBody, 200, out, TRUE, res.tbl # plans)
           /\ mon' = MonToggle(Event("w", c, tid[c], trow[c], newStatus, 200, res.changes), plans)
    /\ pc' = [pc EXCEPT ![c] = "idle"]
    /\ tid' = [tid EXCEPT ![c] = 0]
    /\ trow' = [trow EXCEPT ![c] = 0]
    /\ UNCHANGED <<sqlite_sequence, now, created>>

\* GET /api/stats
Stats ==
    /\ last' = Response("stats", 0, NoBody, 200, SqlStats(plans), TRUE, FALSE)
    /\ mon' = MonEmpty
    /\ UNCHANGED <<plans, sqlite_sequence, now, pc, tid, trow, created>>

Next ==
    \/ Tick
    \/ List
    \/ \E id \in ReqIds : Get(id)
    \/ \E b \in Bodies : Create(b)
    \/ \E id \in ReqIds, b \in Bodies : Update(id, b)
    \/ \E id \in ReqIds : Delete(id)
    \/ \E c \in Clients, id \in ReqIds : ToggleRead(c, id)
    \/ \E c \in Clients : ToggleWrite(c)
    \/ Stats

Spec == Init /\ [][Next]_vars

\* ---------------------------------------------------------------- claims
Absent(v) == v \in {Undefined, ""}

Range(s) == {s[i] : i \in 1..Len(s)}

\* C1: a get, update, delete or toggle whose identifier matches no stored
\* plan answers 404, never 500, whatever the body, and leaves the table as
\* it was.
C1_UnknownIdIs404 ==
    last.op \in {"get", "update", "delete", "toggle"} /\ ~last.hit
        => last.status = 404 /\ ~last.changed

\* an update with no title, for an identifier not among the stored plans,
\* was answered 404
C1_Witness ==
    /\ last.op = "update"
    /\ ~last.hit
    /\ last.status = 404
    /\ last.req.title = Undefined
    /\ plans # {}

\* C2: a create whose title, deadline or author is absent or empty answers
\* 400 with an error message, inserts no row and consumes no id.
C2_InvalidCreateIs400 ==
    /\ last.op = "create"
    /\ Absent(last.req.title) \/ Absent(last.req.deadline) \/ Absent(last.req.author)
    => /\ last.status = 400
       /\ last.out = ErrorOut
       /\ ~last.changed

\* a create without author was answered 400 while the table held a plan
C2_Witness ==
    /\ last.op = "create"
    /\ last.status = 400
    /\ last.req.author = Undefined
    /\ plans # {}

\* C3: every stored plan has title, deadline and author non-null and
\* non-empty.
C3_RequiredFieldsPresent ==
    \A r \in plans :
        /\ r.title \notin {Null, ""}
        /\ r.deadline \notin {Null, ""}
        /\ r.author \notin {Null, ""}

\* a create or update that reached the store: a create that passed the
\* required-field validation, an update whose identifier matched a plan
ReachedStore ==
    \/ /\ last.op = "create"
       /\ ~Absent(last.req.title) /\ ~Absent(last.req.deadline) /\ ~Absent(last.req.author)
    \/ last.op = "update" /\ last.hit

C5_IdsIncrease ==
    /\ \A i, j \in 1..Len(created) : i < j => created[i].id < created[j].id
    /\ \A r \in plans :
          \E i \in 1..Len(created) :
              created[i].id = r.id /\ created[i].at = r.created_at
    /\ \A r1, r2 \in plans : r1.id = r2.id => r1 = r2
    /\ last.op = "create" /\ last.status = 200
         => last.out.id = created[Len(created)].id

\* a create succeeded after a delete had freed a smaller id
C5_Witness ==
    /\ last.op = "create"
    /\ last.status = 200
    /\ Len(created) = 2
    /\ Ids(plans) = {2}

\* the four statements of two toggles run one after the other on one id
TwoTogglesInSequence ==
    /\ Len(mon.log) = 4
    /\ mon.log[1].k = "r" /\ mon.log[2].k = "w" /\ mon.log[2].c = mon.log[1].c
    /\ mon.log[3].k = "r" /\ mon.log[4].k = "w" /\ mon.log[4].c = mon.log[3].c

\* C6: two toggles of a stored plan run one after the other both answer 200,
\* the first with the negation of the stored completed value, the second with
\* the stored value, and the table ends as it was before them.
C6_ToggleTwiceRestores ==
    TwoTogglesInSequence =>
        LET id == mon.log[1].id
            row == CHOOSE r \in mon.orig : r.id = id
        IN  /\ mon.log[2].st = 200 /\ mon.log[4].st = 200
            /\ mon.log[2].ch = 1 /\ mon.log[4].ch = 1
            /\ mon.log[2].ns = (row.completed = 0)
            /\ mon.log[4].ns = (row.completed = 1)
            /\ plans = mon.orig

\* two toggles in sequence happened on a plan whose other fields an update
\* had set
C6_Witness ==
    /\ TwoTogglesInSequence
    /\ \E r \in plans : r.id = mon.log[1].id /\ r.completed = 1 /\ r.priority = "high"

\* two toggles of one id whose reads both ran before their writes
TwoTogglesInterleaved ==
    /\ Len(mon.log) = 4
    /\ mon.log[1].k = "r" /\ mon.log[2].k = "r"
    /\ mon.log[3].k = "w" /\ mon.log[4].k = "w"
    /\ mon.log[1].c # mon.log[2].c
    /\ {mon.log[3].c, mon.log[4].c} = {mon.log[1].c, mon.log[2].c}

\* C7: when two toggles of one id both read before either writes, both read
\* the same value, both answer 200 with its negation, and the stored flag
\* ends flipped once: every row is as before except that this plan's
\* completed is the negation of what it was.
C7_LostUpdate ==
    TwoTogglesInterleaved =>
        LET id == mon.log[1].id
            row == CHOOSE r \in mon.orig : r.id = id
        IN  /\ mon.log[1].row = row.completed /\ mon.log[2].row = row.completed
            /\ mon.log[3].st = 200 /\ mon.log[4].st = 200
            /\ mon.log[3].ns = (row.completed = 0)
            /\ mon.log[4].ns = mon.log[3].ns
            /\ plans = (mon.orig \ {row})
                         \cup {[row EXCEPT !.completed = 1 - row.completed]}

\* the lost update happened: two answers completed = true, the flag stored as 1
C7_Witness ==
    /\ TwoTogglesInterleaved
    /\ mon.log[3].ns /\ mon.log[4].ns
    /\ \E r \in plans : r.id = mon.log[1].id /\ r.completed = 1

\* C8: the statistics answer has total = number of stored plans, completed =
\* number of plans with the flag set, high_priority = number with priority
\* high, also for the empty table.
C8_StatsCountRows ==
    last.op = "stats" =>
        /\ last.out.total = JNum(Cardinality(plans))
        /\ last.out.completed = JNum(Cardinality({r \in plans : r.completed = 1}))
        /\ last.out.high_priority = JNum(Cardinality({r \in plans : r.priority = "high"}))

\* C9: the list answer holds exactly the stored plans, descending in
\* created_at, and of two plans created one after the other the later one
\* comes first.
C9_LaterCreatedFirst ==
    last.op = "list" =>
        LET rows == last.out
            n == Len(rows)
            pos(id) == CHOOSE i \in 1..n : rows[i].id = id
        IN  /\ n = Cardinality(plans)
            /\ Range(rows) = plans
            /\ \A i, j \in 1..n : i < j => rows[i].created_at >= rows[j].created_at
            /\ \A i, j \in 1..Len(created) :
                  i < j /\ {created[i].id, created[j].id} \subseteq Ids(plans)
                    => pos(created[j].id) < pos(created[i].id)

\* C10: a toggle ends with 404, or with 200, changes = 1 and the plan stored
\* with the completed value it answered.
C10_ToggleNever200OnMissing ==
    last.op = "toggle" =>
        \/ last.status = 404
        \/ /\ last.status = 200
           /\ last.out.changes = 1
           /\ \E r \in plans :
                 r.id = last.id /\ r.completed = StatusParam(last.out.completed)

====
